---- MODULE Spec2Model ----
(***************************************************************************)
(* A model of the Parley flowchart-view plugin (flowchart_plugin.py), of   *)
(* the ParleyClient it talks through (parley_plugin/client.py) and of the  *)
(* asynchronous service wrappers (parley_plugin/services.py).              *)
(*                                                                         *)
(* Python values: None is the integer -1, the empty string "" is 0, and a  *)
(* non-empty dialog id / node id is a positive integer.  An expression     *)
(* `if x:` of the source is therefore Truthy(x), i.e. x >= 1.              *)
(*                                                                         *)
(* A handler of the plugin is sequential code that makes remote calls,     *)
(* each of which can succeed, answer "unsuccessful", fail with an          *)
(* grpc.RpcError (which ParleyClient catches), raise another Exception, or *)
(* be cut by a KeyboardInterrupt.  A handler is modelled as an operator    *)
(* from a frame (the object's fields plus the calls and log lines made so  *)
(* far) to the SET of frames it can end in; an action picks one of them.   *)
(***************************************************************************)
EXTENDS Integers, Sequences, FiniteSets, TLC

\* ------------------------------------------------------------------ bounds
NumDialogs == 2       \* dialog ids 1..NumDialogs
NumContents == 2      \* versions 0..NumContents-1 of a dialog's nodes and links
NumNodes == 2         \* node ids 1..NumNodes
MaxFaults == 1        \* remote calls that may go wrong within one handler
MaxFailRun == 3       \* the run of failed structure fetches is counted up to here

\* ------------------------------------------------------- Python's values
None == -1
EmptyStr == 0
Truthy(x) == x >= 1

DialogIds == 1..NumDialogs
NodeIds == 1..NumNodes
Contents == 0..(NumContents - 1)

VARIABLES
    pc,                \* where main() is: "start", "run", "loop", "selection"
                       \* (inside a pass, under RaceSpec only), "finally",
                       \* "exited"
    self,              \* the FlowchartPlugin object's fields
    channel,           \* the ParleyClient's gRPC channel: "none", "open", "closed"
    channel_closes,    \* how many times channel.close() has run
    panel_content,     \* the content the host's panel last received; it is
                       \* followed by LiveSpec only, Spec leaves it alone
    host_dialog,       \* the host's open dialog (EmptyStr: none)
    host_content,      \* the version of the open dialog's nodes and links
    host_selected,     \* the host's selected node (EmptyStr: none)
    host_panel,        \* the host's flowchart panel: "none", "open", "closed"
    ev,                \* what the plugin's last handler did (history)
    structure_failures,\* consecutive steady-state cycles whose structure
                       \* fetch failed, up to MaxFailRun (history)
    exit_path,         \* how main's try block was left (history)
    svc,               \* the last service-wrapper call and what it gave (history)
    run_node_id,       \* run's local node_id between lines 1045 and 1046; it is
                       \* followed by RaceSpec only (None elsewhere)
    base               \* a PluginBase object inside its run(); it is followed
                       \* by BaseSpec only

vars == <<pc, self, channel, channel_closes, panel_content, host_dialog, host_content,
          host_selected, host_panel, ev, structure_failures, exit_path, svc,
          run_node_id, base>>

hostVars == <<host_dialog, host_content, host_selected, host_panel>>

\* ------------------------------------------------------------- the frame
\* FlowchartPlugin.__init__: the fields of a fresh plugin object.
FlowchartPlugin_init ==
    [client |-> FALSE,                  \* self.client is None
     running |-> FALSE,
     current_dialog_id |-> None,
     current_dialog_name |-> None,
     last_structure_hash |-> None,
     last_selected_node_id |-> None,
     initialized |-> FALSE,
     panel_registered |-> FALSE]

\* The frame a handler starts in: the object as it is, the host as it is,
\* no call made, no line logged, no exception in flight.
Frame ==
    [self |-> self, channel |-> channel, closes |-> channel_closes,
     hsel |-> host_selected, hpanel |-> host_panel, shown |-> panel_content,
     rpcs |-> <<>>, logs |-> <<>>, exc |-> "none", faults |-> 0]

Log(f, line) == [f EXCEPT !.logs = Append(@, line)]

Raised(f) == f.exc # "none"

\* What a remote call can do.  "ok": the host answers.  "rpc_error": the
\* stub raises grpc.RpcError, which every ParleyClient method catches and
\* turns into its failure value.  "unsuccessful": the host answers with
\* success = False; it is told apart from "rpc_error" where the caller can
\* tell (`flagged`: get_dialog_structure, whose except clause prints and
\* whose unsuccessful branch does not), and stands with it elsewhere, the
\* returned value being the same.  "raise": the call raises an Exception
\* that is no RpcError.  "interrupt": KeyboardInterrupt arrives during the
\* call.
Outcomes(f, flagged) ==
    IF f.faults < MaxFaults
    THEN {"ok", "rpc_error", "raise", "interrupt"}
         \cup (IF flagged THEN {"unsuccessful"} ELSE {})
    ELSE {"ok"}

NoArg == [kind |-> "none"]

\* One remote call m(a) with outcome o: the call is recorded; an RpcError is
\* printed by the client's except clause (when `printed`); the other
\* exceptions are left in flight.
Rpc(f, m, a, o, printed) ==
    [f EXCEPT !.rpcs = Append(@, [m |-> m, a |-> a, o |-> o]),
              !.faults = IF o = "ok" THEN @ ELSE @ + 1,
              !.logs = IF o = "rpc_error" /\ printed
                       THEN Append(@, "gRPC error") ELSE @,
              !.exc = CASE o = "raise" -> "Exception"
                        [] o = "interrupt" -> "KeyboardInterrupt"
                        [] OTHER -> "none"]

\* ------------------------------------------------------------ ParleyClient
\* The host names dialog d "d": the name is carried as the same number.
DialogName(d) == d

\* ParleyClient.get_current_dialog: (dialog_id, dialog_name), ("", "") on RpcError.
get_current_dialog(f) ==
    { [f |-> Rpc(f, "get_current_dialog", NoArg, o, TRUE),
       ret |-> IF o = "ok" THEN <<host_dialog, DialogName(host_dialog)>>
               ELSE <<EmptyStr, EmptyStr>>] : o \in Outcomes(f, FALSE) }

\* ParleyClient.get_selected_node: the node id, "" on RpcError.
get_selected_node(f) ==
    { [f |-> Rpc(f, "get_selected_node", NoArg, o, TRUE),
       ret |-> IF o = "ok" THEN f.hsel ELSE EmptyStr] : o \in Outcomes(f, FALSE) }

\* ParleyClient.select_node: (success, error); the host selects the node
\* when it answers success.
select_node(f, node_id) ==
    { [f |-> [Rpc(f, "select_node", [kind |-> "node", node |-> node_id], o, TRUE)
                EXCEPT !.hsel = IF o = "ok" THEN node_id ELSE @],
       ret |-> (o = "ok")] : o \in Outcomes(f, FALSE) }

\* The dict get_dialog_structure returns.  The failure dicts carry no
\* dialog_id and empty nodes and links.
StructureOf(d, c) == [success |-> TRUE, dialog_id |-> d, content |-> c]
StructureFailed == [success |-> FALSE, dialog_id |-> EmptyStr, content |-> 0]

\* ParleyClient.get_dialog_structure: nothing is printed for an unsuccessful
\* response, "gRPC error" for an RpcError.
get_dialog_structure(f) ==
    { [f |-> Rpc(f, "get_dialog_structure", NoArg, o, TRUE),
       ret |-> IF o = "ok" THEN StructureOf(host_dialog, host_content)
               ELSE StructureFailed] : o \in Outcomes(f, TRUE) }

\* ParleyClient.get_theme: the host's theme, the dark default on RpcError.
get_theme(f) ==
    { [f |-> Rpc(f, "get_theme", NoArg, o, TRUE),
       ret |-> IF o = "ok" THEN "host" ELSE "dark"] : o \in Outcomes(f, FALSE) }

\* ParleyClient.get_speaker_colors: the host's palette, the default dict on
\* RpcError.
get_speaker_colors(f) ==
    { [f |-> Rpc(f, "get_speaker_colors", NoArg, o, TRUE),
       ret |-> IF o = "ok" THEN "host" ELSE "default"] : o \in Outcomes(f, FALSE) }

\* ParleyClient.register_panel: success; the host opens the panel.
register_panel(f) ==
    { [f |-> [Rpc(f, "register_panel", NoArg, o, TRUE)
                EXCEPT !.hpanel = IF o = "ok" THEN "open" ELSE @],
       ret |-> (o = "ok")] : o \in Outcomes(f, FALSE) }

\* What the panel shows of a pushed page: which page it is, of which dialog,
\* drawn from which nodes and links.
NoContent == [kind |-> "none", name |-> EmptyStr, data |-> 0, demo |-> FALSE]
Shown(content) ==
    IF content.kind = "flowchart"
    THEN [kind |-> "flowchart", name |-> content.name, data |-> content.data,
          demo |-> content.demo]
    ELSE [NoContent EXCEPT !.kind = content.kind]

\* ParleyClient.update_panel_content: (success, error); the host's panel
\* takes the content when the host answers success.
update_panel_content(f, content) ==
    { [f |-> [Rpc(f, "update_panel_content", content, o, TRUE)
                EXCEPT !.shown = IF o = "ok" THEN Shown(content) ELSE @],
       ret |-> (o = "ok")] : o \in Outcomes(f, FALSE) }

\* ParleyClient.close_panel: success; the host removes the panel.
close_panel(f) ==
    { [f |-> [Rpc(f, "close_panel", NoArg, o, TRUE)
                EXCEPT !.hpanel = IF o = "ok" THEN "none" ELSE @],
       ret |-> (o = "ok")] : o \in Outcomes(f, FALSE) }

\* ParleyClient.show_notification: success.
show_notification(f) ==
    { [f |-> Rpc(f, "show_notification", NoArg, o, TRUE),
       ret |-> (o = "ok")] : o \in Outcomes(f, FALSE) }

\* ParleyClient.close: closes the channel if there is one.
ParleyClient_close(f) ==
    IF f.channel # "none"
    THEN [f EXCEPT !.channel = "closed", !.closes = @ + 1]
    ELSE f

\* Number of calls of method m among the recorded calls.
Calls(rpcs, m) == Cardinality({i \in 1..Len(rpcs) : rpcs[i].m = m})

\* ---------------------------------------------------------- FlowchartPlugin
\* hashlib.md5(json.dumps(structure, sort_keys=True)).hexdigest(): a
\* function of the whole dict (dialog id and nodes/links).  Two versions of
\* one dialog never share a digest; the digests of two different dialogs may
\* coincide (the collision the fingerprint properties speak of).
HashSpace == NumContents
Fingerprint(structure) == (structure.dialog_id + structure.content) % HashSpace

PlaceholderContent == [kind |-> "placeholder"]

\* The HTML FLOWCHART_HTML_TEMPLATE.format(...) produces, as the values
\* substituted into it.
FlowchartContent(name, structure, colors, theme, selected) ==
    [kind |-> "flowchart",
     name |-> name,
     demo |-> ~structure.success,
     data |-> IF structure.success THEN structure.content ELSE 0,
     colors |-> colors, theme |-> theme, selected |-> selected]

\* FlowchartPlugin._update_panel_placeholder
_update_panel_placeholder(f) ==
    IF ~f.self.client \/ ~f.self.panel_registered THEN {f}
    ELSE { IF Raised(u.f) \/ u.ret THEN u.f
           ELSE Log(u.f, "Failed to update panel content")
           : u \in update_panel_content(f, PlaceholderContent) }

\* FlowchartPlugin._generate_speaker_colors: the host's palette; the local
\* fallback palette when the call raises an Exception.
_generate_speaker_colors(f) ==
    IF ~f.self.client THEN {[f |-> f, ret |-> "local"]}
    ELSE { IF c.f.exc = "Exception"
           THEN [f |-> Log([c.f EXCEPT !.exc = "none"],
                           "Failed to get speaker colors"),
                 ret |-> "local"]
           ELSE [f |-> IF Raised(c.f) THEN c.f
                       ELSE Log(c.f, "Got speaker colors"),
                 ret |-> c.ret]
           : c \in get_speaker_colors(f) }

\* Lines 858-864 of _render_flowchart_with_data: the selection embedded in
\* the page is the last acknowledged one, or else the host's current one,
\* which is then acknowledged.
RenderSelection(f) ==
    IF Raised(f) THEN {[f |-> f, ret |-> None]}
    ELSE IF Truthy(f.self.last_selected_node_id)
    THEN {[f |-> f, ret |-> f.self.last_selected_node_id]}
    ELSE { IF ~Raised(s.f) /\ Truthy(s.ret)
           THEN [f |-> [s.f EXCEPT !.self.last_selected_node_id = s.ret],
                 ret |-> s.ret]
           ELSE [f |-> s.f, ret |-> f.self.last_selected_node_id]
           : s \in get_selected_node(f) }

\* Lines 866-886 of _render_flowchart_with_data: format the page and send
\* it to the panel.
RenderPush(f, structure, colors, theme, selected) ==
    IF Raised(f) THEN {f}
    ELSE { IF Raised(u.f) THEN u.f
           ELSE IF u.ret THEN Log(u.f, "Rendered")
           ELSE Log(u.f, "Failed to render")
           : u \in update_panel_content(f,
                 FlowchartContent(f.self.current_dialog_name, structure,
                                  colors, theme, selected)) }

\* Lines 854-856 of _render_flowchart_with_data.
RenderTheme(f) ==
    IF Raised(f) THEN {[f |-> f, ret |-> "dark"]} ELSE get_theme(f)

\* _render_flowchart_with_data giving up when the structure is unsuccessful,
\* instead of falling back to the demo graph.
_render_flowchart_with_data_NoFallback(f, structure) ==
    IF ~f.self.client \/ ~f.self.panel_registered THEN {f}
    ELSE IF ~structure.success THEN {Log(f, "Failed to get structure")}
    ELSE UNION { UNION { UNION {
             RenderPush(s.f, structure, c.ret, t.ret, s.ret)
             : s \in RenderSelection(t.f) }
             : t \in RenderTheme(c.f) }
             : c \in _generate_speaker_colors(Log(f, "Got nodes")) }

\* _render_flowchart_with_data without the test of _panel_registered at
\* line 836.
_render_flowchart_with_data_Unregistered(f, structure) ==
    IF ~f.self.client THEN {f}
    ELSE LET f1 == IF structure.success THEN Log(f, "Got nodes")
                   ELSE Log(f, "Failed to get structure")
         IN UNION { UNION { UNION {
                RenderPush(s.f, structure, c.ret, t.ret, s.ret)
                : s \in RenderSelection(t.f) }
                : t \in RenderTheme(c.f) }
                : c \in _generate_speaker_colors(f1) }

\* FlowchartPlugin._render_flowchart_with_data
_render_flowchart_with_data(f, structure) ==
    IF ~f.self.client \/ ~f.self.panel_registered THEN {f}
    ELSE LET f1 == IF structure.success THEN Log(f, "Got nodes")
                   ELSE Log(f, "Failed to get structure")
         IN UNION { UNION { UNION {
                RenderPush(s.f, structure, c.ret, t.ret, s.ret)
                : s \in RenderSelection(t.f) }
                : t \in RenderTheme(c.f) }
                : c \in _generate_speaker_colors(f1) }

\* FlowchartPlugin._render_flowchart
_render_flowchart(f) ==
    IF ~f.self.client \/ ~f.self.panel_registered THEN {f}
    ELSE UNION { IF Raised(g.f) THEN {g.f}
                 ELSE _render_flowchart_with_data(g.f, g.ret)
                 : g \in get_dialog_structure(f) }

\* FlowchartPlugin._on_dialog_changed
_on_dialog_changed(f) ==
    IF ~Truthy(f.self.current_dialog_id)
    THEN _update_panel_placeholder(Log(f, "Dialog closed, showing placeholder"))
    ELSE _render_flowchart(Log(f, "Rendering flowchart"))

\* RefreshSameDialog handing an unsuccessful structure to the render, as
\* _render_flowchart does (the demo graph would be pushed).
RefreshSameDialog_RenderOnFailure(f) ==
    UNION { IF Raised(g.f) THEN {g.f}
            ELSE IF ~g.ret.success THEN _render_flowchart_with_data(g.f, g.ret)
            ELSE IF Fingerprint(g.ret) # g.f.self.last_structure_hash
            THEN _render_flowchart_with_data(
                     [Log(g.f, "Dialog content changed, re-rendering")
                        EXCEPT !.self.last_structure_hash = Fingerprint(g.ret)],
                     g.ret)
            ELSE {g.f}
            : g \in get_dialog_structure(f) }

\* Lines 783-795 of _refresh_dialog_state: the same dialog is still open;
\* fetch its structure and re-render when its digest is not the cached one.
RefreshSameDialog(f) ==
    UNION { IF Raised(g.f) \/ ~g.ret.success THEN {g.f}
            ELSE IF Fingerprint(g.ret) # g.f.self.last_structure_hash
            THEN _render_flowchart_with_data(
                     [Log(g.f, "Dialog content changed, re-rendering")
                        EXCEPT !.self.last_structure_hash = Fingerprint(g.ret)],
                     g.ret)
            ELSE {g.f}
            : g \in get_dialog_structure(f) }

\* RefreshDialogChanged with the reset of line 775 dropped and the new dialog
\* put through the fingerprint comparison of the steady state.
RefreshDialogChanged_CompareOnly(f, dialog_id, dialog_name) ==
    LET f1 == [f EXCEPT !.self.current_dialog_id = dialog_id,
                        !.self.current_dialog_name = dialog_name]
    IN IF Truthy(dialog_id)
       THEN RefreshSameDialog(Log(f1, "Dialog loaded"))
       ELSE _update_panel_placeholder(Log(f1, "No dialog loaded"))

\* Lines 772-782 of _refresh_dialog_state: the dialog id differs from the
\* cached one.
RefreshDialogChanged(f, dialog_id, dialog_name) ==
    LET f1 == [f EXCEPT !.self.current_dialog_id = dialog_id,
                        !.self.current_dialog_name = dialog_name,
                        !.self.last_structure_hash = None]
    IN IF Truthy(dialog_id)
       THEN _on_dialog_changed(Log(f1, "Dialog loaded"))
       ELSE _update_panel_placeholder(Log(f1, "No dialog loaded"))

\* _refresh_dialog_state with no memory of the empty state: the placeholder
\* is pushed, and the message printed, on every cycle without a dialog.
_refresh_dialog_state_NoDedup(f) ==
    IF ~f.self.client THEN {f}
    ELSE UNION { IF Raised(d.f) THEN {d.f}
                 ELSE IF d.ret[1] # d.f.self.current_dialog_id
                 THEN RefreshDialogChanged(d.f, d.ret[1], d.ret[2])
                 ELSE IF Truthy(d.ret[1]) THEN RefreshSameDialog(d.f)
                 ELSE _update_panel_placeholder(Log(d.f, "No dialog loaded"))
                 : d \in get_current_dialog(f) }

\* FlowchartPlugin._refresh_dialog_state
_refresh_dialog_state(f) ==
    IF ~f.self.client THEN {f}
    ELSE UNION { IF Raised(d.f) THEN {d.f}
                 ELSE IF d.ret[1] # d.f.self.current_dialog_id
                 THEN RefreshDialogChanged(d.f, d.ret[1], d.ret[2])
                 ELSE IF Truthy(d.ret[1]) THEN RefreshSameDialog(d.f)
                 ELSE {d.f}
                 : d \in get_current_dialog(f) }

\* FlowchartPlugin._register_panel: (frame, returned value).
_register_panel(f) ==
    IF ~f.self.client THEN {[f |-> f, ret |-> FALSE]}
    ELSE UNION {
           IF Raised(r.f) THEN {[f |-> r.f, ret |-> FALSE]}
           ELSE IF r.ret
           THEN { [f |-> p, ret |-> TRUE]
                  : p \in _update_panel_placeholder(
                        [Log(r.f, "Panel registered")
                           EXCEPT !.self.panel_registered = TRUE]) }
           ELSE {[f |-> Log(r.f, "Panel registration failed"), ret |-> FALSE]}
           : r \in register_panel(f) }

\* ParleyClient() in initialize: the constructor raises RuntimeError when
\* PARLEY_GRPC_PORT is not set, and opens the channel otherwise.
ParleyClient_new(f) ==
    { [f EXCEPT !.exc = "Exception"],
      Log([f EXCEPT !.self.client = TRUE, !.channel = "open"], "Connected") }

\* Lines 658-664 of initialize: register the panel (a failure is only
\* warned about), then query the initial dialog state.
InitializeBody(f) ==
    IF Raised(f) THEN {f}
    ELSE UNION { IF Raised(r.f) THEN {r.f}
                 ELSE _refresh_dialog_state(
                          IF r.ret THEN r.f
                          ELSE Log(r.f, "Warning: Panel registration failed"))
                 : r \in _register_panel(f) }

\* FlowchartPlugin.initialize: (frame, returned value).  An Exception is
\* caught and gives False; a KeyboardInterrupt stays in flight.
initialize(f) ==
    { CASE b.exc = "Exception" ->
             [f |-> Log([b EXCEPT !.exc = "none"], "Initialization failed"),
              ret |-> FALSE]
        [] b.exc = "KeyboardInterrupt" -> [f |-> b, ret |-> FALSE]
        [] OTHER -> [f |-> [b EXCEPT !.self.initialized = TRUE], ret |-> TRUE]
      : b \in UNION { InitializeBody(c) : c \in ParleyClient_new(f) } }

\* _on_flowchart_node_clicked without line 1016: the relayed node is not
\* taken as the acknowledged selection.
_on_flowchart_node_clicked_Untracked(f, node_id) ==
    IF ~f.self.client THEN {f}
    ELSE { IF Raised(r.f) THEN r.f
           ELSE IF r.ret THEN Log(r.f, "Successfully requested selection")
           ELSE Log(r.f, "Failed to select node")
           : r \in select_node(Log(f, "User clicked node"), node_id) }

\* _on_flowchart_node_clicked asking again when the request failed.
_on_flowchart_node_clicked_Retry(f, node_id) ==
    IF ~f.self.client THEN {f}
    ELSE UNION { IF Raised(r.f) THEN {r.f}
                 ELSE IF r.ret
                 THEN {[Log(r.f, "Successfully requested selection")
                          EXCEPT !.self.last_selected_node_id = node_id]}
                 ELSE { q.f : q \in select_node(
                                  Log(r.f, "Failed to select node"), node_id) }
                 : r \in select_node(Log(f, "User clicked node"), node_id) }

\* _on_flowchart_node_clicked re-rendering the flowchart to move the
\* highlight to the clicked node.
_on_flowchart_node_clicked_Rerender(f, node_id) ==
    IF ~f.self.client THEN {f}
    ELSE UNION { IF Raised(r.f) THEN {r.f}
                 ELSE IF r.ret
                 THEN _render_flowchart(
                          [Log(r.f, "Successfully requested selection")
                             EXCEPT !.self.last_selected_node_id = node_id])
                 ELSE {Log(r.f, "Failed to select node")}
                 : r \in select_node(Log(f, "User clicked node"), node_id) }

\* FlowchartPlugin._on_flowchart_node_clicked
_on_flowchart_node_clicked(f, node_id) ==
    IF ~f.self.client THEN {f}
    ELSE { IF Raised(r.f) THEN r.f
           ELSE IF r.ret
           THEN [Log(r.f, "Successfully requested selection")
                   EXCEPT !.self.last_selected_node_id = node_id]
           ELSE Log(r.f, "Failed to select node")
           : r \in select_node(Log(f, "User clicked node"), node_id) }

\* SelectionCheck re-rendering the flowchart when the host's selection
\* changed (the symmetric sync the source's comment warns against).
SelectionCheck_Rerender(f) ==
    IF ~f.self.client THEN {f}
    ELSE UNION { IF ~Raised(s.f) /\ Truthy(s.ret)
                    /\ s.ret # s.f.self.last_selected_node_id
                 THEN _render_flowchart(
                          [Log(s.f, "Selection changed")
                             EXCEPT !.self.last_selected_node_id = s.ret])
                 ELSE {s.f}
                 : s \in get_selected_node(f) }

\* Lines 1044-1048 of run: track the host's selection, never re-render.
SelectionCheck(f) ==
    IF ~f.self.client THEN {f}
    ELSE { IF ~Raised(s.f) /\ Truthy(s.ret)
              /\ s.ret # s.f.self.last_selected_node_id
           THEN [Log(s.f, "Selection changed (tracking only)")
                   EXCEPT !.self.last_selected_node_id = s.ret]
           ELSE s.f
           : s \in get_selected_node(f) }

\* Lines 1034-1048 of run: the try body of one poll cycle, up to the sleep.
PollBody(f) ==
    UNION { IF Raised(r) THEN {r} ELSE SelectionCheck(r)
            : r \in _refresh_dialog_state(f) }

\* Lines 1050-1057 of run: where the loop goes after the try body, which
\* raised exc (or "none"); intr: a KeyboardInterrupt arrives during the
\* time.sleep that follows.  No exception: sleep, then loop.
\* KeyboardInterrupt in the body or in that sleep: break.  Any other
\* Exception: log it, sleep, then loop; a KeyboardInterrupt during the sleep
\* of the except clause leaves run uncaught.
AfterCycle_ExceptionEndsLoop(exc, intr) ==
    CASE exc = "KeyboardInterrupt" -> "finally"
      [] exc = "none" -> IF intr THEN "finally" ELSE "loop"
      [] OTHER -> "finally"

AfterCycle(exc, intr) ==
    CASE exc = "KeyboardInterrupt" -> "finally"
      [] exc = "none" -> IF intr THEN "finally" ELSE "loop"
      [] OTHER -> IF intr THEN "finally" ELSE "loop"

\* Line 1031 of run: the poll interval, in seconds.
poll_interval == 2

\* CycleWait doubling the wait after a failed cycle.
CycleWait_Backoff(exc) ==
    CASE exc = "KeyboardInterrupt" -> <<>>
      [] exc = "none" -> <<poll_interval>>
      [] OTHER -> <<2 * poll_interval>>

\* Lines 1050 and 1057 of run: the time.sleep calls a pass of the loop makes
\* after its try body, which raised exc (or "none").
CycleWait(exc) ==
    CASE exc = "KeyboardInterrupt" -> <<>>
      [] exc = "none" -> <<poll_interval>>
      [] OTHER -> <<poll_interval>>

\* How main's try block is left by a pass of the loop, "none" if it is not.
ExitPath(exc, intr) ==
    CASE exc = "KeyboardInterrupt" -> "loop_interrupt"
      [] exc = "none" -> IF intr THEN "sleep_interrupt" ELSE "none"
      [] OTHER -> IF intr THEN "handler_sleep_interrupt" ELSE "none"

\* The lines a pass of the loop prints after its try body.
CycleLog(f, intr) ==
    CASE f.exc = "KeyboardInterrupt" -> Log(f, "Interrupted")
      [] f.exc = "none" -> IF intr THEN Log(f, "Interrupted") ELSE f
      [] OTHER -> Log(f, "Error in main loop")

\* Lines 1065-1076 of shutdown: close the panel and say goodbye inside one
\* try block; an Exception ends the block and is swallowed.
ShutdownCalls(f) ==
    LET closed == IF f.self.panel_registered
                  THEN { IF Raised(c.f) THEN c.f
                         ELSE [c.f EXCEPT !.self.panel_registered = FALSE]
                         : c \in close_panel(f) }
                  ELSE {f}
        said == UNION { IF Raised(c) THEN {c}
                        ELSE { n.f : n \in show_notification(c) }
                        : c \in closed }
    IN { IF s.exc = "Exception" THEN [s EXCEPT !.exc = "none"] ELSE s
         : s \in said }

\* shutdown forgetting the channel: self.client is dropped without close().
shutdown_ClientDropped(f) ==
    LET f1 == [Log(f, "Shutting down") EXCEPT !.self.running = FALSE]
    IN IF ~f1.self.client
       THEN {Log([f1 EXCEPT !.self.initialized = FALSE], "Shutdown complete")}
       ELSE { IF Raised(s) THEN s
              ELSE Log([s EXCEPT !.self.client = FALSE,
                                 !.self.initialized = FALSE],
                       "Shutdown complete")
              : s \in ShutdownCalls(f1) }

\* shutdown without the test of self.client at line 1064.
shutdown_Unconditional(f) ==
    LET f1 == [Log(f, "Shutting down") EXCEPT !.self.running = FALSE]
    IN { IF Raised(s) THEN s
         ELSE Log([ParleyClient_close(s)
                     EXCEPT !.self.client = FALSE,
                            !.self.initialized = FALSE],
                  "Shutdown complete")
         : s \in ShutdownCalls(f1) }

\* FlowchartPlugin.shutdown.  A KeyboardInterrupt inside the try block is
\* not an Exception: it leaves shutdown before the channel is closed.
shutdown(f) ==
    LET f1 == [Log(f, "Shutting down") EXCEPT !.self.running = FALSE]
    IN IF ~f1.self.client
       THEN {Log([f1 EXCEPT !.self.initialized = FALSE], "Shutdown complete")}
       ELSE { IF Raised(s) THEN s
              ELSE Log([ParleyClient_close(s)
                          EXCEPT !.self.client = FALSE,
                                 !.self.initialized = FALSE],
                       "Shutdown complete")
              : s \in ShutdownCalls(f1) }

\* ------------------------------------------------------------------ actions
HostNow ==
    [dialog |-> host_dialog, content |-> host_content,
     selected |-> host_selected, panel |-> host_panel]

\* The record of a handler that ended in frame f.
Event(op, node, f, ret) ==
    [op |-> op, node |-> node, pre |-> self, host |-> HostNow,
     rpcs |-> f.rpcs, logs |-> f.logs, exc |-> f.exc, ret |-> ret,
     sleeps |-> 0, sleep_interrupted |-> FALSE, waits |-> <<>>]

NoEvent ==
    [op |-> "none", node |-> None, pre |-> FlowchartPlugin_init,
     host |-> [dialog |-> EmptyStr, content |-> 0, selected |-> EmptyStr,
               panel |-> "none"],
     rpcs |-> <<>>, logs |-> <<>>, exc |-> "none", ret |-> FALSE,
     sleeps |-> 0, sleep_interrupted |-> FALSE, waits |-> <<>>]

\* The host changed on its own: the record of the plugin's last handler no
\* longer describes what the host reports.
HostEvent == [NoEvent EXCEPT !.op = "host"]

SvcIdle ==
    [method |-> "none",
     stub |-> [kind |-> "none", success |-> FALSE, message |-> <<>>,
               code |-> "OK"],
     result |-> [kind |-> "none", value |-> "none", code |-> "OK"]]

\* The handler ended in frame f: the object, the channel and the host are
\* as f left them.
Apply(f) ==
    /\ self' = f.self
    /\ channel' = f.channel
    /\ channel_closes' = f.closes
    /\ host_selected' = f.hsel
    /\ host_panel' = f.hpanel
    /\ UNCHANGED <<host_dialog, host_content, svc, panel_content, run_node_id,
                   base>>

\* The same, the panel's content followed as well.
ApplyShown(f) ==
    /\ self' = f.self
    /\ channel' = f.channel
    /\ channel_closes' = f.closes
    /\ host_selected' = f.hsel
    /\ host_panel' = f.hpanel
    /\ panel_content' = f.shown
    /\ UNCHANGED <<host_dialog, host_content, svc, run_node_id, base>>

\* The short record of a handler that ended in frame f: its pushes, whether
\* every call was answered, the exception it ended in.
ShortEvent(op, f) ==
    [NoEvent EXCEPT !.op = op,
                    !.rpcs = SelectSeq(f.rpcs,
                                 LAMBDA c : c.m = "update_panel_content"),
                    !.ret = \A i \in 1..Len(f.rpcs) : f.rpcs[i].o = "ok",
                    !.exc = f.exc]

\* PluginBase.__init__ (plugin.py): no pipe name, no channel, no services;
\* with it the history of a run(): the channels created and closed, the
\* calls made, what on_initialize did, what run gave.
PluginBase_init ==
    [pc |-> "start", pipe_name |-> "", address |-> "", channel |-> FALSE,
     services |-> FALSE, created |-> 0, closed |-> 0, calls |-> <<>>,
     connected |-> FALSE, init |-> "none", sleeps |-> 0, result |-> "none"]

Init ==
    /\ pc = "start"
    /\ self = FlowchartPlugin_init
    /\ channel = "none"
    /\ channel_closes = 0
    /\ panel_content = NoContent
    /\ host_dialog \in {EmptyStr} \cup DialogIds
    /\ host_content \in (IF host_dialog = EmptyStr THEN {0} ELSE Contents)
    /\ host_selected = EmptyStr
    /\ host_panel = "none"
    /\ ev = NoEvent
    /\ structure_failures = 0
    /\ exit_path = "none"
    /\ svc = SvcIdle
    /\ run_node_id = None
    /\ base = PluginBase_init

\* main, lines 1094-1100: plugin.initialize(); True leads into run, False
\* and KeyboardInterrupt lead to the finally clause.
Initialize ==
    /\ pc = "start"
    /\ \E r \in initialize(Frame) :
         /\ Apply(r.f)
         /\ ev' = Event("initialize", None,
                        IF Raised(r.f) \/ r.ret THEN r.f
                        ELSE Log(r.f, "Failed to initialize"), r.ret)
         /\ pc' = IF ~Raised(r.f) /\ r.ret THEN "run" ELSE "finally"
         /\ exit_path' = CASE Raised(r.f) -> "init_interrupt"
                           [] ~r.ret -> "init_false"
                           [] OTHER -> exit_path
    /\ UNCHANGED structure_failures

\* run, lines 1026-1031: the prologue of the loop.
RunStart ==
    /\ pc = "run"
    /\ self' = [self EXCEPT !.running = TRUE]
    /\ pc' = "loop"
    /\ ev' = [Event("run", None, Log(Frame, "Plugin running"), TRUE)
                EXCEPT !.pre = self]
    /\ UNCHANGED <<channel, channel_closes, panel_content, run_node_id, base,
                   hostVars,
                   structure_failures,
                   exit_path, svc>>

\* Whether the cycle recorded in e was a steady-state one (the fetched id
\* is the cached, non-empty one) whose structure fetch failed.
SteadyFetch(e) ==
    /\ e.op = "poll"
    /\ Len(e.rpcs) >= 2
    /\ e.rpcs[1].o = "ok"
    /\ Truthy(e.host.dialog)
    /\ e.host.dialog = e.pre.current_dialog_id
    /\ e.rpcs[2].m = "get_dialog_structure"

SteadyFetchFailed(e) ==
    SteadyFetch(e) /\ e.rpcs[2].o \in {"unsuccessful", "rpc_error"}

\* run, lines 1033-1057: one pass of the while loop, its sleep included.
PollCycle ==
    /\ pc = "loop"
    /\ self.running
    /\ \E f \in PollBody(Frame) :
         \E intr \in (IF f.exc = "KeyboardInterrupt" THEN {FALSE} ELSE BOOLEAN) :
           /\ Apply(f)
           /\ pc' = AfterCycle(f.exc, intr)
           /\ exit_path' = ExitPath(f.exc, intr)
           /\ ev' = [Event("poll", None, CycleLog(f, intr), TRUE)
                       EXCEPT !.sleeps = Len(CycleWait(f.exc)),
                              !.waits = CycleWait(f.exc),
                              !.sleep_interrupted = intr]
           /\ structure_failures' =
                IF SteadyFetchFailed(ev')
                THEN (IF structure_failures < MaxFailRun
                      THEN structure_failures + 1 ELSE MaxFailRun)
                ELSE 0

\* main, lines 1105-1106: the finally clause runs plugin.shutdown().
Shutdown ==
    /\ pc = "finally"
    /\ \E f \in shutdown(Frame) :
         /\ Apply(f)
         /\ ev' = Event("shutdown", None, f, TRUE)
    /\ pc' = "exited"
    /\ UNCHANGED <<structure_failures, exit_path>>

\* The plugin is in its loop: the host and the user act between two passes.
InRun == pc = "loop"

\* The host forwards a click on a node of the panel to the plugin.
Click ==
    /\ InRun
    /\ host_panel = "open"
    /\ Truthy(host_dialog)
    /\ \E n \in NodeIds : \E f \in _on_flowchart_node_clicked(Frame, n) :
         /\ Apply(f)
         /\ ev' = Event("click", n, f, TRUE)
    /\ UNCHANGED <<pc, structure_failures, exit_path>>

\* The user opens another dialog in the host.
HostOpenDialog ==
    /\ InRun
    /\ \E d \in DialogIds \ {host_dialog} : \E c \in Contents :
         /\ host_dialog' = d
         /\ host_content' = c
    /\ host_selected' = EmptyStr
    /\ ev' = HostEvent
    /\ UNCHANGED <<pc, self, channel, channel_closes, panel_content, run_node_id, base,
                   host_panel,
                   structure_failures, exit_path, svc>>

\* The user closes the dialog.
HostCloseDialog ==
    /\ InRun
    /\ Truthy(host_dialog)
    /\ host_dialog' = EmptyStr
    /\ host_content' = 0
    /\ host_selected' = EmptyStr
    /\ ev' = HostEvent
    /\ UNCHANGED <<pc, self, channel, channel_closes, panel_content, run_node_id, base,
                   host_panel,
                   structure_failures, exit_path, svc>>

\* The user edits the open dialog: its nodes and links change.
HostEditDialog ==
    /\ InRun
    /\ Truthy(host_dialog)
    /\ \E c \in Contents \ {host_content} : host_content' = c
    /\ ev' = HostEvent
    /\ UNCHANGED <<pc, self, channel, channel_closes, panel_content, run_node_id, base,
                   host_dialog,
                   host_selected, host_panel, structure_failures, exit_path, svc>>

\* The user selects a node (or none) in the host's tree view.
HostSelectNode ==
    /\ InRun
    /\ Truthy(host_dialog)
    /\ \E n \in ({EmptyStr} \cup NodeIds) \ {host_selected} : host_selected' = n
    /\ ev' = HostEvent
    /\ UNCHANGED <<pc, self, channel, channel_closes, panel_content, run_node_id, base,
                   host_dialog,
                   host_content, host_panel, structure_failures, exit_path, svc>>

\* The user closes the flowchart panel in the host.
UserClosePanel ==
    /\ InRun
    /\ host_panel = "open"
    /\ host_panel' = "closed"
    /\ ev' = HostEvent
    /\ UNCHANGED <<pc, self, channel, channel_closes, panel_content, run_node_id, base,
                   host_dialog,
                   host_content, host_selected, structure_failures, exit_path, svc>>

Next ==
    \/ Initialize
    \/ RunStart
    \/ PollCycle
    \/ Shutdown
    \/ Click
    \/ HostOpenDialog
    \/ HostCloseDialog
    \/ HostEditDialog
    \/ HostSelectNode
    \/ UserClosePanel

Spec == Init /\ [][Next]_vars

\* ---------------------------------------------- the loop that is never left
\* The behaviours in which initialize succeeds and no interrupt arrives: the
\* loop polls for ever, the host's dialog changes between the passes.  What
\* the panel has received is followed in panel_content; of each handler the
\* short record is kept.
LiveInitialize ==
    /\ pc = "start"
    /\ \E r \in initialize(Frame) :
         /\ ~Raised(r.f) /\ r.ret
         /\ ApplyShown(r.f)
         /\ ev' = ShortEvent("initialize", r.f)
    /\ pc' = "run"
    /\ UNCHANGED <<structure_failures, exit_path>>

LivePoll ==
    /\ pc = "loop"
    /\ self.running
    /\ \E f \in PollBody(Frame) :
         /\ f.exc # "KeyboardInterrupt"
         /\ ApplyShown(f)
         /\ ev' = ShortEvent("poll", f)
    /\ UNCHANGED <<pc, structure_failures, exit_path>>

LiveNext ==
    \/ LiveInitialize
    \/ RunStart
    \/ LivePoll
    \/ HostOpenDialog
    \/ HostCloseDialog
    \/ HostEditDialog

\* A pass of the loop in which the host answers every call.
QuietPoll == LivePoll /\ ev'.ret /\ ev'.exc = "none"

\* The loop keeps polling: while self.running holds and no interrupt
\* arrives, run goes from one pass of the while loop to the next, so a pass
\* that the host answers throughout is made as soon as the host allows it.
LiveSpec == Init /\ [][LiveNext]_vars /\ WF_vars(QuietPoll)

\* ------------------------------------- a click delivered during a poll cycle
\* Nothing in flowchart_plugin.py holds a lock: when the host's bridge calls
\* _on_flowchart_node_clicked on a thread of its own, the call can fall
\* between any two statements of run.  The pass of the loop is taken here in
\* two steps, around the point between line 1045 (the read of the host's
\* selection into the local node_id) and line 1046 (its comparison with, and
\* assignment to, _last_selected_node_id).

\* Lines 1034-1045 of run: the try body up to the read of the host's
\* selection; `read` tells whether line 1045 returned, ret is the id read.
PollRead(f) ==
    UNION { IF Raised(r) \/ ~r.self.client
            THEN {[f |-> r, ret |-> None, read |-> FALSE]}
            ELSE { [f |-> s.f,
                    ret |-> IF Raised(s.f) THEN None ELSE s.ret,
                    read |-> ~Raised(s.f)]
                   : s \in get_selected_node(r) }
            : r \in _refresh_dialog_state(f) }

\* Lines 1046-1048 of run, with the id read at line 1045.
SelectionTrack(f, nid) ==
    IF Truthy(nid) /\ nid # f.self.last_selected_node_id
    THEN [Log(f, "Selection changed (tracking only)")
            EXCEPT !.self.last_selected_node_id = nid]
    ELSE f

\* The handler's step ended in frame f, the local node_id holding nid.
ApplyRace(f, nid) ==
    /\ self' = f.self
    /\ channel' = f.channel
    /\ channel_closes' = f.closes
    /\ host_selected' = f.hsel
    /\ host_panel' = f.hpanel
    /\ run_node_id' = nid
    /\ UNCHANGED <<host_dialog, host_content, svc, panel_content, base>>

\* run, lines 1033-1045: a pass of the loop up to the read of the host's
\* selection; a pass that does not get that far ends as in PollCycle.
RacePollRead ==
    /\ pc = "loop"
    /\ self.running
    /\ \E r \in PollRead(Frame) :
         IF r.read
         THEN /\ ApplyRace(r.f, r.ret)
              /\ pc' = "selection"
              /\ ev' = Event("poll_read", None, r.f, TRUE)
              /\ UNCHANGED exit_path
         ELSE \E intr \in (IF r.f.exc = "KeyboardInterrupt"
                           THEN {FALSE} ELSE BOOLEAN) :
              /\ ApplyRace(r.f, None)
              /\ pc' = AfterCycle(r.f.exc, intr)
              /\ exit_path' = ExitPath(r.f.exc, intr)
              /\ ev' = [Event("poll", None, CycleLog(r.f, intr), TRUE)
                          EXCEPT !.sleeps = Len(CycleWait(r.f.exc)),
                                 !.waits = CycleWait(r.f.exc),
                                 !.sleep_interrupted = intr]
    /\ UNCHANGED structure_failures

\* run, lines 1046-1050: the rest of the pass, and its sleep.
RacePollWrite ==
    /\ pc = "selection"
    /\ \E intr \in BOOLEAN :
         LET f == SelectionTrack(Frame, run_node_id)
         IN /\ ApplyRace(f, None)
            /\ pc' = AfterCycle("none", intr)
            /\ exit_path' = ExitPath("none", intr)
            /\ ev' = [Event("poll_write", run_node_id, CycleLog(f, intr), TRUE)
                        EXCEPT !.sleeps = Len(CycleWait("none")),
                               !.waits = CycleWait("none"),
                               !.sleep_interrupted = intr]
    /\ UNCHANGED structure_failures

\* The host forwards a click on a node of the panel, between two passes of
\* the loop or in the middle of one.
RaceClick ==
    /\ pc \in {"loop", "selection"}
    /\ host_panel = "open"
    /\ Truthy(host_dialog)
    /\ \E n \in NodeIds : \E f \in _on_flowchart_node_clicked(Frame, n) :
         /\ Apply(f)
         /\ ev' = Event("click", n, f, TRUE)
    /\ UNCHANGED <<pc, structure_failures, exit_path>>

RaceNext ==
    \/ Initialize
    \/ RunStart
    \/ RacePollRead
    \/ RacePollWrite
    \/ RaceClick
    \/ HostSelectNode
    \/ Shutdown

RaceSpec == Init /\ [][RaceNext]_vars

TypeOK ==
    /\ pc \in {"start", "run", "loop", "selection", "finally", "exited"}
    /\ self.current_dialog_id \in {None, EmptyStr} \cup DialogIds
    /\ self.last_structure_hash \in {None} \cup (0..(HashSpace - 1))
    /\ self.last_selected_node_id \in {None} \cup NodeIds
    /\ channel \in {"none", "open", "closed"}
    /\ host_panel \in {"none", "open", "closed"}

\* ------------------------------------------------- services.py: the wrappers
\* grpc.StatusCode of a failed call (OK is no failure).
StatusCodes ==
    {"CANCELLED", "UNKNOWN", "INVALID_ARGUMENT", "DEADLINE_EXCEEDED",
     "NOT_FOUND", "ALREADY_EXISTS", "PERMISSION_DENIED", "RESOURCE_EXHAUSTED",
     "FAILED_PRECONDITION", "ABORTED", "OUT_OF_RANGE", "UNIMPLEMENTED",
     "INTERNAL", "UNAVAILABLE", "DATA_LOSS", "UNAUTHENTICATED"}

\* An error message of the host, as its characters.
ErrorMessages ==
    { <<>>,
      <<"n", "o", "t", " ", "f", "o", "u", "n", "d">>,
      <<"F", "i", "l", "e", " ", "N", "o", "t", " ", "F", "o", "u", "n", "d">>,
      <<"d", "e", "n", "i", "e", "d">>,
      <<"n", "o", "t", "f", "o", "u", "n", "d">>,
      <<"N", "O", "T", " ", "F", "O", "U", "N", "D", "!">> }

\* What a stub call gives: a response, or grpc.RpcError with a status code.
StubOutcomes ==
    [kind : {"response"}, success : BOOLEAN, message : ErrorMessages,
     code : {"OK"}]
    \cup [kind : {"rpc_error"}, success : {FALSE}, message : {<<>>},
          code : StatusCodes]

Returned(v) == [kind |-> "return", value |-> v, code |-> "OK"]
Raises(type, code) == [kind |-> "raise", value |-> type, code |-> code]

\* The except clause the wrappers share:
\*   except grpc.RpcError as e:
\*       if e.code() == grpc.StatusCode.PERMISSION_DENIED: raise PermissionError
\*       raise
ExceptRpcError(code) ==
    IF code = "PERMISSION_DENIED" THEN Raises("PermissionError", code)
    ELSE Raises("RpcError", code)

\* str.lower() on the characters the messages use.
LowerChar(c) ==
    CASE c = "F" -> "f" [] c = "N" -> "n" [] c = "O" -> "o" [] c = "T" -> "t"
      [] c = "U" -> "u" [] c = "D" -> "d" [] OTHER -> c

Lower(str) == [i \in 1..Len(str) |-> LowerChar(str[i])]

\* `sub in str`
Contains(sub, str) ==
    \E i \in 0..(Len(str) - Len(sub)) :
        \A j \in 1..Len(sub) : str[i + j] = sub[j]

NotFound == <<"n", "o", "t", " ", "f", "o", "u", "n", "d">>

\* AudioService.play, UIService.show_notification: response.success, the
\* shared except clause.
AudioService_play(r) ==
    IF r.kind = "rpc_error" THEN ExceptRpcError(r.code)
    ELSE Returned(IF r.success THEN "True" ELSE "False")

\* AudioService.stop: no try block; whatever the stub raises leaves as it is.
AudioService_stop(r) ==
    IF r.kind = "rpc_error" THEN Raises("RpcError", r.code)
    ELSE Returned(IF r.success THEN "True" ELSE "False")

UIService_show_notification(r) ==
    IF r.kind = "rpc_error" THEN ExceptRpcError(r.code)
    ELSE Returned(IF r.success THEN "True" ELSE "False")

\* UIService.show_dialog: response.button_index.
UIService_show_dialog(r) ==
    IF r.kind = "rpc_error" THEN ExceptRpcError(r.code)
    ELSE Returned("button_index")

\* DialogService.get_current_dialog: (dialog_id, dialog_name).
DialogService_get_current_dialog(r) ==
    IF r.kind = "rpc_error" THEN ExceptRpcError(r.code)
    ELSE Returned("dialog")

\* DialogService.get_selected_node: (node_id, node_text).
DialogService_get_selected_node(r) ==
    IF r.kind = "rpc_error" THEN ExceptRpcError(r.code)
    ELSE Returned("node")

\* FileService.open_file_dialog / save_file_dialog: the path, or None when
\* cancelled (the response's success flag stands for "not cancelled").
FileService_open_file_dialog(r) ==
    IF r.kind = "rpc_error" THEN ExceptRpcError(r.code)
    ELSE Returned(IF r.success THEN "file_path" ELSE "None")

FileService_save_file_dialog(r) ==
    IF r.kind = "rpc_error" THEN ExceptRpcError(r.code)
    ELSE Returned(IF r.success THEN "file_path" ELSE "None")

\* read_file looking for "not found" without lower().
FileService_read_file_CaseSensitive(r) ==
    IF r.kind = "rpc_error" THEN ExceptRpcError(r.code)
    ELSE IF ~r.success
    THEN (IF Contains(NotFound, r.message)
          THEN Raises("FileNotFoundError", "OK")
          ELSE Raises("IOError", "OK"))
    ELSE Returned("content")

\* FileService.read_file
FileService_read_file(r) ==
    IF r.kind = "rpc_error" THEN ExceptRpcError(r.code)
    ELSE IF ~r.success
    THEN (IF Contains(NotFound, Lower(r.message))
          THEN Raises("FileNotFoundError", "OK")
          ELSE Raises("IOError", "OK"))
    ELSE Returned("content")

\* FileService.write_file
FileService_write_file(r) ==
    IF r.kind = "rpc_error" THEN ExceptRpcError(r.code)
    ELSE IF ~r.success THEN Raises("IOError", "OK")
    ELSE Returned("True")

ServiceMethods ==
    {"AudioService.play", "AudioService.stop", "UIService.show_notification",
     "UIService.show_dialog", "DialogService.get_current_dialog",
     "DialogService.get_selected_node", "FileService.open_file_dialog",
     "FileService.save_file_dialog", "FileService.read_file",
     "FileService.write_file"}

ServiceResult(method, r) ==
    CASE method = "AudioService.play" -> AudioService_play(r)
      [] method = "AudioService.stop" -> AudioService_stop(r)
      [] method = "UIService.show_notification" -> UIService_show_notification(r)
      [] method = "UIService.show_dialog" -> UIService_show_dialog(r)
      [] method = "DialogService.get_current_dialog" ->
             DialogService_get_current_dialog(r)
      [] method = "DialogService.get_selected_node" ->
             DialogService_get_selected_node(r)
      [] method = "FileService.open_file_dialog" ->
             FileService_open_file_dialog(r)
      [] method = "FileService.save_file_dialog" ->
             FileService_save_file_dialog(r)
      [] method = "FileService.read_file" -> FileService_read_file(r)
      [] OTHER -> FileService_write_file(r)

\* A plugin awaits one wrapper method; the stub answers r.
ServiceCall ==
    /\ \E method \in ServiceMethods : \E r \in StubOutcomes :
         svc' = [method |-> method, stub |-> r,
                 result |-> ServiceResult(method, r)]
    /\ UNCHANGED <<pc, self, channel, channel_closes, panel_content, run_node_id, base,
                   hostVars, ev,
                   structure_failures, exit_path>>

SvcNext == ServiceCall

\* The wrappers on their own: any sequence of calls, any answers.
SvcSpec == Init /\ [][SvcNext]_vars

\* ------------------------------------------------------ shutdown called again
\* shutdown is a public method: after main's finally clause has run it, a
\* caller (an atexit hook, a signal handler, a test) may call it once more.
ShutdownAgain ==
    /\ pc = "exited"
    /\ \E f \in shutdown(Frame) :
         /\ Apply(f)
         /\ ev' = Event("shutdown_again", None, f, TRUE)
    /\ UNCHANGED <<pc, structure_failures, exit_path>>

AgainNext ==
    \/ Initialize
    \/ RunStart
    \/ PollCycle
    \/ Shutdown
    \/ ShutdownAgain

\* main followed by further calls of shutdown; the host stays as it is.
AgainSpec == Init /\ [][AgainNext]_vars

\* ------------------------------------------------- plugin.py: PluginBase.run
MaxSleeps == 2        \* the sleeps of the keep-alive loop are counted up to here

pluginVars ==
    <<pc, self, channel, channel_closes, panel_content, hostVars, ev,
      structure_failures, exit_path, svc, run_node_id>>

PipeNames == {"parley-1", "parley-2"}
Platforms == {"win32", "linux"}

\* Lines 91-94 of connect: the address of the pipe.
PipeAddress(platform, pipe_name) ==
    IF platform = "win32" THEN <<"npipe://", pipe_name>>
    ELSE <<"unix:/tmp/", pipe_name>>

\* What connect meets: insecure_channel raises; Ping answers "ok", answers
\* another status, raises an Exception (grpc.RpcError), or is cancelled (a
\* BaseException, which `except Exception` does not catch).
ConnectOutcomes ==
    {"channel_error", "ping_ok", "ping_status", "ping_error", "ping_cancelled"}

Called(b, name) == [b EXCEPT !.calls = Append(@, name)]

\* PluginBase.connect: (object, returned value); "cancelled" when the
\* BaseException leaves it.  A channel that was created stays in _channel
\* whatever Ping does.
PluginBase_connect(b, platform, pipe_name, o) ==
    LET b1 == [Called(b, "connect")
                 EXCEPT !.pipe_name = pipe_name,
                        !.address = PipeAddress(platform, pipe_name)]
        b2 == [b1 EXCEPT !.channel = TRUE, !.created = @ + 1]
    IN CASE o = "channel_error" -> [b |-> b1, ret |-> "False"]
         [] o = "ping_ok" ->
              [b |-> [b2 EXCEPT !.services = TRUE, !.connected = TRUE],
               ret |-> "True"]
         [] o = "ping_cancelled" -> [b |-> b2, ret |-> "cancelled"]
         [] OTHER -> [b |-> b2, ret |-> "False"]

\* PluginBase.disconnect
PluginBase_disconnect(b) ==
    IF b.channel
    THEN [Called(b, "disconnect") EXCEPT !.channel = FALSE, !.closed = @ + 1]
    ELSE Called(b, "disconnect")

Ended(b, result) == [b EXCEPT !.pc = "done", !.result = result]

\* run, lines 134-141: parse the arguments, connect; 1 when connect gives
\* False.
BaseConnect ==
    /\ base.pc = "start"
    /\ \E platform \in Platforms : \E pipe_name \in PipeNames :
       \E o \in ConnectOutcomes :
         LET c == PluginBase_connect(base, platform, pipe_name, o)
         IN base' = CASE c.ret = "True" -> [c.b EXCEPT !.pc = "connected"]
                      [] c.ret = "False" -> Ended(c.b, "return 1")
                      [] OTHER -> Ended(c.b, "raise")
    /\ UNCHANGED pluginVars

\* What on_initialize of a subclass can do: return True (as MinimalPlugin's
\* does), return False, raise an Exception, be cancelled.
InitializeOutcomes == {"True", "False", "raise", "cancelled"}

\* Lines 143-154 of run, for on_initialize doing o.
RunInitialize(b, o) ==
    LET b1 == [Called(b, "on_initialize") EXCEPT !.init = o]
    IN CASE o = "True" -> [b1 EXCEPT !.pc = "alive"]
         [] o \in {"False", "raise"} ->
              Ended(PluginBase_disconnect(b1), "return 1")
         [] OTHER -> Ended(b1, "raise")

BaseInitialize ==
    /\ base.pc = "connected"
    /\ \E o \in InitializeOutcomes : base' = RunInitialize(base, o)
    /\ UNCHANGED pluginVars

\* run, lines 160-161: one sleep of the keep-alive loop.
BaseSleep ==
    /\ base.pc = "alive"
    /\ base.sleeps < MaxSleeps
    /\ base' = [base EXCEPT !.sleeps = @ + 1]
    /\ UNCHANGED pluginVars

\* What ends the keep-alive loop, and what on_shutdown then does.
LoopEnds == {"KeyboardInterrupt", "Exception", "cancelled"}
ShutdownOutcomes == {"return", "raise"}

\* Lines 162-170 of run: the loop is left by `cause`; the finally clause
\* awaits on_shutdown and then disconnect; an exception of on_shutdown
\* leaves the clause before disconnect.  0 is returned when the cause was
\* caught and the clause ran through.
RunFinally(b, cause, o) ==
    LET b1 == Called(b, "on_shutdown")
    IN IF o = "raise" THEN Ended(b1, "raise")
       ELSE Ended(PluginBase_disconnect(b1),
                  IF cause = "cancelled" THEN "raise" ELSE "return 0")

BaseStop ==
    /\ base.pc = "alive"
    /\ \E cause \in LoopEnds : \E o \in ShutdownOutcomes :
         base' = RunFinally(base, cause, o)
    /\ UNCHANGED pluginVars

BaseNext ==
    \/ BaseConnect
    \/ BaseInitialize
    \/ BaseSleep
    \/ BaseStop

\* PluginBase.run on its own: any pipe, any answers of the host.
BaseSpec == Init /\ [][BaseNext]_vars

\* ------------------------------------------------------------ the properties
Pushes(e) == Calls(e.rpcs, "update_panel_content")

AllOk(e) == \A i \in 1..Len(e.rpcs) : e.rpcs[i].o = "ok"

\* The dialog id the cycle e got from get_current_dialog.
FetchedDialog(e) ==
    /\ e.op = "poll"
    /\ Len(e.rpcs) >= 1
    /\ e.rpcs[1].o \in {"ok", "rpc_error"}

FetchedId(e) == IF e.rpcs[1].o = "ok" THEN e.host.dialog ELSE EmptyStr

\* The cycle e found a non-empty id B where a non-empty id A was cached.
DocSwitch(e) ==
    /\ FetchedDialog(e)
    /\ Truthy(FetchedId(e))
    /\ Truthy(e.pre.current_dialog_id)
    /\ FetchedId(e) # e.pre.current_dialog_id

\* The cycle e found the cached non-empty id and fetched its structure.
FetchedStructure(e) ==
    /\ FetchedDialog(e)
    /\ Len(e.rpcs) >= 2
    /\ e.rpcs[2].m = "get_dialog_structure"
    /\ e.rpcs[2].o = "ok"

StructureSeen(e) == StructureOf(e.host.dialog, e.host.content)

\* The cycle e got as far as line 1044, and read the host's selection there
\* (the successful read inside the render, line 862, is the one followed at
\* once by the push).
ReadSelection(e) ==
    /\ e.op = "poll"
    /\ \E i \in 1..Len(e.rpcs) :
         /\ e.rpcs[i].m = "get_selected_node"
         /\ e.rpcs[i].o = "ok"
         /\ i < Len(e.rpcs) => e.rpcs[i + 1].m # "update_panel_content"

\* C1: over consecutive poll cycles in which the host reports the same
\* non-empty dialog id and identical successful structure snapshots (every
\* call succeeding, the panel registered), update_panel_content is called on
\* the first cycle after the change only: a cycle that follows a cycle with
\* the same successful fetches pushes nothing.
C1_OnePushPerChange ==
    [][ ( /\ ev.op = "poll" /\ ev'.op = "poll"
          /\ AllOk(ev) /\ AllOk(ev')
          /\ ev.exc = "none" /\ ev'.exc = "none"
          /\ FetchedStructure(ev) /\ FetchedStructure(ev')
          /\ ev.pre.panel_registered
          /\ StructureSeen(ev) = StructureSeen(ev') )
        => Pushes(ev') = 0 ]_vars

\* The push of a dialog switch came before any exception of the cycle.
RaisedBeforePush(e) == e.exc # "none" /\ Pushes(e) = 0

\* C2: with the panel registered, a cycle that fetches a non-empty id B
\* different from the cached non-empty id A leaves the cached fingerprint
\* None and calls update_panel_content (unless a remote call raised before
\* the push), whatever the fingerprint of B's structure is.
C2_IdChangeForcesPush ==
    (DocSwitch(ev) /\ ev.pre.panel_registered)
    => /\ self.last_structure_hash = None
       /\ self.current_dialog_id = FetchedId(ev)
       /\ (Pushes(ev) = 1 \/ RaisedBeforePush(ev))

\* C2's case: B's structure has the fingerprint last recorded for A, and the
\* push was made.
C2_Witness ==
    /\ DocSwitch(ev) /\ ev.pre.panel_registered
    /\ AllOk(ev) /\ ev.exc = "none"
    /\ Fingerprint(StructureSeen(ev)) = ev.pre.last_structure_hash
    /\ Pushes(ev) = 1
    /\ \E i \in 1..Len(ev.rpcs) :
         /\ ev.rpcs[i].m = "update_panel_content"
         /\ ev.rpcs[i].a.kind = "flowchart"
         /\ ev.rpcs[i].a.data = ev.host.content
    /\ self.last_structure_hash = None

\* The cycle e found the cached dialog with the cached fingerprint, and a
\* host selection that is not the last acknowledged one.
SelectionOnlyChange(e) ==
    /\ FetchedStructure(e)
    /\ FetchedId(e) = e.pre.current_dialog_id
    /\ Fingerprint(StructureSeen(e)) = e.pre.last_structure_hash
    /\ ReadSelection(e)
    /\ e.host.selected # e.pre.last_selected_node_id

\* C3: a cycle in which only the host's selected node changed (same dialog
\* id, same fingerprint) makes no update_panel_content call.
C3_SelectionTrackingOnly == SelectionOnlyChange(ev) => Pushes(ev) = 0

\* C3's case: the host's new selection was acknowledged, nothing was pushed.
C3_Witness ==
    /\ SelectionOnlyChange(ev)
    /\ Truthy(ev.host.selected)
    /\ Truthy(ev.pre.last_selected_node_id)
    /\ self.last_selected_node_id = ev.host.selected
    /\ Pushes(ev) = 0

\* The click e relayed its node once.
OneRelay(e) ==
    /\ Calls(e.rpcs, "select_node") = 1
    /\ \A i \in 1..Len(e.rpcs) :
         e.rpcs[i].m = "select_node" => e.rpcs[i].a.node = e.node

\* The cycle e is the one after the click c and read c's node as the host's
\* selection.
CycleAfterClick(c, e) ==
    /\ c.op = "click"
    /\ e.op = "poll"
    /\ ReadSelection(e)
    /\ e.host.selected = c.node

\* The cycle e found another dialog id, or another fingerprint, than cached.
DocumentDiffers(e) ==
    \/ FetchedId(e) # e.pre.current_dialog_id
    \/ /\ FetchedStructure(e)
       /\ Fingerprint(StructureSeen(e)) # e.pre.last_structure_hash

\* C4 as stated: a click on node X makes exactly one select_node call, with
\* X, and the next poll cycle, reading X as the host's selection, makes no
\* select_node call and no update_panel_content call.
C4_Original ==
    [][ /\ (ev'.op = "click" => OneRelay(ev'))
        /\ (CycleAfterClick(ev, ev')
            => Calls(ev'.rpcs, "select_node") = 0 /\ Pushes(ev') = 0) ]_vars

\* C4 as amended: a click on node X makes exactly one select_node call, with
\* X, and the next poll cycle, reading X as the host's selection, makes no
\* select_node call, and no update_panel_content call unless it found a
\* dialog id or a structure fingerprint other than the cached one.
C4_RelayOnceNoEcho ==
    [][ /\ (ev'.op = "click" => OneRelay(ev'))
        /\ (CycleAfterClick(ev, ev')
            => /\ Calls(ev'.rpcs, "select_node") = 0
               /\ (Pushes(ev') = 0 \/ DocumentDiffers(ev'))) ]_vars

\* C4's case: the click on X was relayed and acknowledged, the host selects
\* X, and the loop is about to read it.
C4_Witness ==
    /\ ev.op = "click"
    /\ OneRelay(ev)
    /\ AllOk(ev)
    /\ host_selected = ev.node
    /\ self.last_selected_node_id = ev.node
    /\ ev.pre.last_selected_node_id # ev.node
    /\ self.last_structure_hash # None
    /\ pc = "loop"

\* The failure of cycle e's structure fetch was printed.
FailureLogged(e) == e.rpcs[2].o = "rpc_error"

\* C5: within a run of steady-state cycles whose structure fetch fails, the
\* failure is logged on failures 1, 31, 61, ... (every 30th) and on no other
\* (checked for the failures counted exactly, those below MaxFailRun).
C5_RateLimitedFailureLog ==
    (SteadyFetchFailed(ev) /\ structure_failures < MaxFailRun)
    => (FailureLogged(ev) <=> (structure_failures - 1) % 30 = 0)

\* C6: a pass of the loop made while the host reports the panel closed by
\* the user ends the loop, and the shutdown that follows calls neither
\* close_panel nor show_notification.
C6_PanelClosedEndsLoop ==
    /\ (ev.op = "poll" /\ ev.host.panel = "closed" /\ ev.exc = "none")
       => pc # "loop"
    /\ (ev.op = "shutdown" /\ ev.host.panel = "closed")
       => /\ Calls(ev.rpcs, "close_panel") = 0
          /\ Calls(ev.rpcs, "show_notification") = 0

InterruptPaths == {"loop_interrupt", "sleep_interrupt", "handler_sleep_interrupt"}

\* C7: in the shutdown that follows an interrupt of the loop, with the panel
\* registered, close_panel and show_notification are both called, whether
\* the first fails by its returned value or by raising an exception, and
\* shutdown raises nothing (no further interrupt arriving inside shutdown).
C7_BothFarewellCallsAttempted ==
    ( /\ ev.op = "shutdown"
      /\ exit_path \in InterruptPaths
      /\ ev.pre.client /\ ev.pre.panel_registered
      /\ \A i \in 1..Len(ev.rpcs) : ev.rpcs[i].o # "interrupt" )
    => /\ Calls(ev.rpcs, "close_panel") = 1
       /\ Calls(ev.rpcs, "show_notification") = 1
       /\ ev.exc = "none"

Logged(e, line) == \E i \in 1..Len(e.logs) : e.logs[i] = line

\* C8: an exception raised by a step of a poll cycle is caught and logged,
\* and the loop sleeps and goes on to another cycle; the loop is left only
\* by a KeyboardInterrupt (in the cycle or in its sleep), never because a
\* call to the host failed.
C8_CycleExceptionRetried ==
    /\ (ev.op = "poll" /\ \E i \in 1..Len(ev.rpcs) : ev.rpcs[i].o = "raise")
       => \/ ev.exc = "Exception"
          \/ Logged(ev, "Failed to get speaker colors")
    /\ (ev.op = "poll" /\ ev.exc = "Exception")
       => /\ Logged(ev, "Error in main loop")
          /\ ev.sleeps = 1
          /\ (pc = "loop" /\ self.running) \/ ev.sleep_interrupted
    /\ (ev.op = "poll" /\ pc # "loop")
       => ev.exc = "KeyboardInterrupt" \/ ev.sleep_interrupted

\* C8's case: a call raised in the cycle, the exception was logged, and the
\* loop is ready for the next cycle.
C8_Witness ==
    /\ ev.op = "poll"
    /\ ev.exc = "Exception"
    /\ ev.rpcs[Len(ev.rpcs)].o = "raise"
    /\ Logged(ev, "Error in main loop")
    /\ pc = "loop" /\ self.running

\* C9: every way out of main's try block leads through shutdown; once
\* shutdown has run to its end, self.client is None and the channel of a
\* client that was created has been closed exactly once.
C9_ShutdownClosesChannelOnce ==
    /\ channel_closes <= 1
    /\ exit_path # "none" => pc \in {"finally", "exited"}
    /\ pc = "finally" => exit_path # "none"
    /\ pc = "exited"
       => /\ ev.op = "shutdown"
          /\ ev.exc = "none"
             => /\ ~self.client
                /\ ~self.running
                /\ channel # "none" => channel = "closed" /\ channel_closes = 1

\* C9's case: the loop was left by an interrupt of the sleep in the except
\* clause, shutdown ran, the channel is closed.
C9_Witness ==
    /\ pc = "exited"
    /\ exit_path = "handler_sleep_interrupt"
    /\ ev.op = "shutdown" /\ ev.exc = "none"
    /\ ev.pre.client /\ ~self.client
    /\ channel = "closed" /\ channel_closes = 1

\* C10: every method of the service wrappers answers an RpcError of status
\* PERMISSION_DENIED with PermissionError, and lets an RpcError of any other
\* status through as it is.
C10_PermissionDeniedIsPermissionError ==
    svc.stub.kind = "rpc_error"
    => svc.result = IF svc.stub.code = "PERMISSION_DENIED"
                    THEN Raises("PermissionError", svc.stub.code)
                    ELSE Raises("RpcError", svc.stub.code)

\* The cycle e asked for the current dialog while the cached dialog was
\* still open in the host, and the call failed with an RpcError.
TransientDialogFailure(e) ==
    /\ e.op = "poll"
    /\ Len(e.rpcs) >= 1
    /\ e.rpcs[1].m = "get_current_dialog"
    /\ e.rpcs[1].o = "rpc_error"
    /\ Truthy(e.pre.current_dialog_id)
    /\ e.host.dialog = e.pre.current_dialog_id

\* C11: a cycle whose get_current_dialog call fails while a dialog is
\* loaded leaves the cached dialog id, name and fingerprint as they were and
\* pushes nothing to the panel.
C11_TransientFailureKeepsState ==
    TransientDialogFailure(ev)
    => /\ self.current_dialog_id = ev.pre.current_dialog_id
       /\ self.current_dialog_name = ev.pre.current_dialog_name
       /\ self.last_structure_hash = ev.pre.last_structure_hash
       /\ Pushes(ev) = 0

\* The click e came back from select_node without an exception.
ClickReturned(e) == e.op = "click" /\ e.exc = "none" /\ Len(e.rpcs) >= 1

\* C12 as stated: after the click handler has returned for node X, the
\* acknowledged selection is X.
C12_Original == ClickReturned(ev) => self.last_selected_node_id = ev.node

\* C12 as amended: after the click handler has returned for node X with
\* select_node reporting success, the acknowledged selection is X, before
\* any poll cycle runs; when select_node reports failure it is what it was.
C12_AcknowledgedOnSuccess ==
    ClickReturned(ev)
    => self.last_selected_node_id =
         IF ev.rpcs[1].o = "ok" THEN ev.node
         ELSE ev.pre.last_selected_node_id

\* C12's case: a click on a node other than the acknowledged one was
\* relayed, and the acknowledged selection is the clicked node while the
\* loop has yet to run its next cycle.
C12_Witness ==
    /\ ClickReturned(ev)
    /\ ev.rpcs[1].o = "ok"
    /\ Truthy(ev.pre.last_selected_node_id)
    /\ ev.pre.last_selected_node_id # ev.node
    /\ self.last_selected_node_id = ev.node
    /\ pc = "loop"

\* The optional selectedId: None and "" both stand for no selection.
SelectedId(x) == IF Truthy(x) THEN x ELSE EmptyStr

\* C13: at the end of a cycle that read the host's selection, the
\* acknowledged selection is the one the host reported, also when the host
\* reports no selection after a node had been selected.
C13_AcknowledgedFollowsHost ==
    (ReadSelection(ev) /\ ev.exc = "none")
    => SelectedId(self.last_selected_node_id) = SelectedId(ev.host.selected)

\* The cycle e was answered that no dialog is open (or got the empty id of
\* a failed call).
EmptyFetch(e) == FetchedDialog(e) /\ FetchedId(e) = EmptyStr

LogCount(e, line) == Cardinality({i \in 1..Len(e.logs) : e.logs[i] = line})

PlaceholderPushes(e) ==
    Cardinality({i \in 1..Len(e.rpcs) :
                   /\ e.rpcs[i].m = "update_panel_content"
                   /\ e.rpcs[i].a.kind = "placeholder"})

\* C14: a cycle that fetches the empty id while another id is cached pushes
\* the placeholder once (panel registered), prints the no-dialog message
\* once and caches the empty id; a cycle that fetches the empty id while the
\* empty id is cached, as every following one does, pushes nothing and
\* prints no such message.
C14_PlaceholderOnce ==
    EmptyFetch(ev)
    => /\ self.current_dialog_id = EmptyStr
       /\ IF ev.pre.current_dialog_id # EmptyStr
          THEN /\ LogCount(ev, "No dialog loaded") = 1
               /\ ev.pre.panel_registered
                  => PlaceholderPushes(ev) = 1 /\ Pushes(ev) = 1
          ELSE /\ LogCount(ev, "No dialog loaded") = 0
               /\ Pushes(ev) = 0

\* C14's case: a cycle with the empty id already cached, the panel
\* registered: nothing pushed, nothing printed.
C14_Witness ==
    /\ EmptyFetch(ev)
    /\ ev.rpcs[1].o = "ok"
    /\ ev.pre.current_dialog_id = EmptyStr
    /\ ev.pre.panel_registered
    /\ ev.exc = "none"
    /\ Pushes(ev) = 0
    /\ ev.logs = <<>>

\* The cycle e (or the first refresh, in initialize) found a non-empty id
\* other than the cached one, rendered its structure and pushed it, every
\* call answered.
LoadedAndRendered(e) ==
    /\ FetchedDialog(e)
    /\ Truthy(FetchedId(e))
    /\ FetchedId(e) # e.pre.current_dialog_id
    /\ e.pre.panel_registered
    /\ AllOk(e) /\ e.exc = "none"
    /\ Pushes(e) = 1

\* C15: after a cycle that switches to a new non-empty dialog id and
\* renders it, the cached fingerprint is the fingerprint of the structure
\* that was rendered.
C15_FingerprintRecordedOnLoad ==
    LoadedAndRendered(ev)
    => self.last_structure_hash = Fingerprint(StructureSeen(ev))

\* No call of the cycle e other than the i-th raised or was interrupted.
OthersReturned(e, i) ==
    \A j \in 1..Len(e.rpcs) :
      j # i => e.rpcs[j].o \notin {"raise", "interrupt"}

\* The cycle e renders a newly found dialog and its structure fetch, the
\* i-th call, is unsuccessful.
RenderStructureFailed(e, i) ==
    /\ FetchedDialog(e)
    /\ Truthy(FetchedId(e))
    /\ FetchedId(e) # e.pre.current_dialog_id
    /\ e.pre.panel_registered
    /\ i = 2 /\ Len(e.rpcs) >= 2
    /\ e.rpcs[i].m = "get_dialog_structure"
    /\ e.rpcs[i].o \in {"unsuccessful", "rpc_error"}

\* The i-th call of the cycle e is a speaker-colour fetch that failed, by an
\* RpcError (the client returns its default dict) or by another exception.
ColourFetchFailed(e, i) ==
    /\ e.op = "poll"
    /\ i \in 1..Len(e.rpcs)
    /\ e.rpcs[i].m = "get_speaker_colors"
    /\ e.rpcs[i].o \in {"rpc_error", "raise"}

\* The flowchart pages the handler e pushed.
FlowchartsPushed(e) ==
    { e.rpcs[i].a : i \in { j \in 1..Len(e.rpcs) :
                              /\ e.rpcs[j].m = "update_panel_content"
                              /\ e.rpcs[j].a.kind = "flowchart" } }

\* C16: when the structure fetch of a render is unsuccessful, or its
\* speaker-colour fetch fails, and no other call raises, the render goes on
\* and no exception leaves the cycle: one page is pushed, built from the
\* demo graph (structure failure), with the palette of default "_pc" and
\* "_owner" colours (colour failure).
C16_RenderFallsBack ==
    \A i \in 1..Len(ev.rpcs) :
      /\ (RenderStructureFailed(ev, i) /\ OthersReturned(ev, i))
         => /\ ev.exc = "none"
            /\ Pushes(ev) = 1
            /\ \E c \in FlowchartsPushed(ev) : c.demo
      /\ (ColourFetchFailed(ev, i) /\ OthersReturned(ev, i))
         => /\ ev.exc = "none"
            /\ Pushes(ev) = 1
            /\ \E c \in FlowchartsPushed(ev) :
                 c.colors = IF ev.rpcs[i].o = "rpc_error"
                            THEN "default" ELSE "local"

\* C16's case: get_speaker_colors raised inside a render, the page went out
\* with the local fallback palette, and the cycle ended without exception.
C16_Witness ==
    /\ \E i \in 1..Len(ev.rpcs) :
         ColourFetchFailed(ev, i) /\ ev.rpcs[i].o = "raise"
    /\ ev.exc = "none"
    /\ Logged(ev, "Failed to get speaker colors")
    /\ \E c \in FlowchartsPushed(ev) : c.colors = "local" /\ ~c.demo

\* C17: a cycle that is followed by another one is separated from it by
\* exactly one wait, of 2 seconds, whether the cycle ended normally or in an
\* exception.
C17_FixedCadence ==
    (ev.op = "poll" /\ pc = "loop") => ev.waits = <<2>>

\* C17's case: a cycle ended in an exception, one wait of 2 seconds was
\* made, and the loop goes on.
C17_Witness ==
    /\ ev.op = "poll"
    /\ ev.exc = "Exception"
    /\ ev.waits = <<2>>
    /\ ~ev.sleep_interrupted
    /\ pc = "loop" /\ self.running

\* The rendering of what the host has now: the page of the open dialog,
\* drawn from its own nodes and links, or the placeholder.
CurrentRendering ==
    IF Truthy(host_dialog)
    THEN [kind |-> "flowchart", name |-> DialogName(host_dialog),
          data |-> host_content, demo |-> FALSE]
    ELSE [NoContent EXCEPT !.kind = "placeholder"]

\* A step of the quiet period: a poll cycle in which every call is answered
\* and which no interrupt ends; the host and the user do nothing.
QuietStep ==
    /\ ev'.op = "poll"
    /\ ev'.ret /\ ev'.exc = "none"
    /\ UNCHANGED <<host_dialog, host_content>>

\* C18: with the panel registered, if from some point on the host's dialog
\* and structure no longer change and every call succeeds, then eventually
\* the panel's content is the rendering of the host's current snapshot (the
\* placeholder when no dialog is open) and stays so, and no cycle pushes
\* content any more.
C18_EventuallyConsistent ==
    (<>[][QuietStep]_vars /\ <>[](pc = "loop" /\ self.panel_registered))
    => /\ <>[](panel_content = CurrentRendering)
       /\ <>[][Pushes(ev') = 0]_vars

\* ----------------------------------------------- client.py: the RPC methods
\* Each ParleyClient method as a function of what its stub call does: the
\* stub returns a response (its fields in `payload`) or raises grpc.RpcError
\* with a status code; str(e) is carried as the name of the code.
ClientMethods ==
    {"show_notification", "show_dialog", "get_theme", "get_speaker_colors",
     "play_audio", "stop_audio", "get_current_dialog", "get_selected_node",
     "select_node", "get_dialog_structure", "register_panel",
     "update_panel_content", "close_panel", "is_panel_open",
     "get_panel_setting"}

ClientMessages == {"", "denied"}

\* The responses the stub of a method can return.
ClientResponses(method) ==
    CASE method \in {"show_notification", "play_audio", "stop_audio",
                     "close_panel", "is_panel_open"} -> BOOLEAN
      [] method = "show_dialog" -> 0..1
      [] method = "get_theme" ->
             [theme_id : {"dark", "light"}, is_dark : BOOLEAN]
      [] method = "get_speaker_colors" ->
             [pc_color : {"#111111"}, owner_color : {"#222222"},
              pc_shape : {"", "Star"}, owner_shape : {"", "Star"}]
      [] method = "get_current_dialog" ->
             {<<"", "">>, <<"d1", "First">>}
      [] method = "get_selected_node" ->
             {<<"", "">>, <<"entry_0", "Hello">>}
      [] method \in {"select_node", "update_panel_content"} ->
             BOOLEAN \X ClientMessages
      [] method = "get_dialog_structure" ->
             [success : BOOLEAN, error_message : ClientMessages,
              dialog_id : {"d1"}, nodes : {<<>>, <<"entry_0">>},
              links : {<<>>}]
      [] method = "register_panel" ->
             BOOLEAN \X ClientMessages \X {"flowchart-view"}
      [] OTHER -> BOOLEAN \X {"", "on"}

ClientStubOutcomes(method) ==
    [kind : {"response"}, payload : ClientResponses(method), code : {"OK"}]
    \cup [kind : {"rpc_error"}, payload : {"none"}, code : StatusCodes]

\* show_notification, play_audio, stop_audio, close_panel (response.success)
\* and is_panel_open (response.is_open): False on RpcError.
ParleyClient_flag(r) ==
    IF r.kind = "rpc_error" THEN Returned(FALSE) ELSE Returned(r.payload)

\* close_panel without its try block.
ParleyClient_close_panel_Unguarded(r) ==
    IF r.kind = "rpc_error" THEN Raises("RpcError", r.code)
    ELSE Returned(r.payload)

ParleyClient_close_panel(r) == ParleyClient_flag(r)

ParleyClient_show_dialog(r) ==
    IF r.kind = "rpc_error" THEN Returned(-1) ELSE Returned(r.payload)

ParleyClient_get_theme(r) ==
    IF r.kind = "rpc_error"
    THEN Returned([theme_id |-> "unknown", theme_name |-> "unknown",
                   is_dark |-> TRUE])
    ELSE Returned([theme_id |-> r.payload.theme_id,
                   theme_name |-> r.payload.theme_id,
                   is_dark |-> r.payload.is_dark])

\* The default palette of get_speaker_colors' except clause.
DefaultSpeakerColors ==
    [pc_color |-> "#4FC3F7", owner_color |-> "#FF8A65",
     speaker_colors |-> <<>>, pc_shape |-> "Circle",
     owner_shape |-> "Square", speaker_shapes |-> <<>>]

ParleyClient_get_speaker_colors(r) ==
    IF r.kind = "rpc_error" THEN Returned(DefaultSpeakerColors)
    ELSE Returned([pc_color |-> r.payload.pc_color,
                   owner_color |-> r.payload.owner_color,
                   speaker_colors |-> <<>>,
                   pc_shape |-> IF r.payload.pc_shape # ""
                                THEN r.payload.pc_shape ELSE "Circle",
                   owner_shape |-> IF r.payload.owner_shape # ""
                                   THEN r.payload.owner_shape ELSE "Square",
                   speaker_shapes |-> <<>>])

\* get_current_dialog and get_selected_node: a pair, ("", "") on RpcError.
ParleyClient_pair(r) ==
    IF r.kind = "rpc_error" THEN Returned(<<"", "">>) ELSE Returned(r.payload)

\* select_node and update_panel_content: (success, error_message),
\* (False, str(e)) on RpcError.
ParleyClient_outcome(r) ==
    IF r.kind = "rpc_error" THEN Returned(<<FALSE, r.code>>)
    ELSE Returned(r.payload)

ParleyClient_get_dialog_structure(r) ==
    IF r.kind = "rpc_error"
    THEN Returned([success |-> FALSE, error_message |-> r.code,
                   nodes |-> <<>>, links |-> <<>>])
    ELSE IF ~r.payload.success
    THEN Returned([success |-> FALSE,
                   error_message |-> r.payload.error_message,
                   nodes |-> <<>>, links |-> <<>>])
    ELSE Returned([success |-> TRUE, dialog_id |-> r.payload.dialog_id,
                   nodes |-> r.payload.nodes, links |-> r.payload.links])

ParleyClient_register_panel(r) ==
    IF r.kind = "rpc_error" THEN Returned(<<FALSE, r.code, "">>)
    ELSE Returned(r.payload)

ParleyClient_get_panel_setting(r) ==
    IF r.kind = "rpc_error" THEN Returned(<<FALSE, "">>)
    ELSE Returned(r.payload)

ClientResult(method, r) ==
    CASE method \in {"show_notification", "play_audio", "stop_audio",
                     "is_panel_open"} -> ParleyClient_flag(r)
      [] method = "close_panel" -> ParleyClient_close_panel(r)
      [] method = "show_dialog" -> ParleyClient_show_dialog(r)
      [] method = "get_theme" -> ParleyClient_get_theme(r)
      [] method = "get_speaker_colors" -> ParleyClient_get_speaker_colors(r)
      [] method \in {"get_current_dialog", "get_selected_node"} ->
             ParleyClient_pair(r)
      [] method \in {"select_node", "update_panel_content"} ->
             ParleyClient_outcome(r)
      [] method = "get_dialog_structure" ->
             ParleyClient_get_dialog_structure(r)
      [] method = "register_panel" -> ParleyClient_register_panel(r)
      [] OTHER -> ParleyClient_get_panel_setting(r)

\* A plugin calls one method of the client; the stub does r.
ClientCall ==
    /\ \E method \in ClientMethods : \E r \in ClientStubOutcomes(method) :
         svc' = [method |-> method, stub |-> r,
                 result |-> ClientResult(method, r)]
    /\ UNCHANGED <<pc, self, channel, channel_closes, panel_content, run_node_id, base,
                   hostVars, ev, structure_failures, exit_path>>

ClientNext == ClientCall

\* The client's methods on their own: any sequence of calls, any answers.
ClientSpec == Init /\ [][ClientNext]_vars

\* The value a method is documented to return when the call fails with the
\* RpcError e.
DocumentedFailure(method, e) ==
    CASE method \in {"show_notification", "play_audio", "stop_audio",
                     "close_panel", "is_panel_open"} -> FALSE
      [] method = "show_dialog" -> -1
      [] method \in {"get_current_dialog", "get_selected_node"} -> <<"", "">>
      [] method \in {"select_node", "update_panel_content"} -> <<FALSE, e>>
      [] method = "get_dialog_structure" ->
             [success |-> FALSE, error_message |-> e,
              nodes |-> <<>>, links |-> <<>>]
      [] method = "get_theme" ->
             [theme_id |-> "unknown", theme_name |-> "unknown",
              is_dark |-> TRUE]
      [] method = "get_speaker_colors" -> DefaultSpeakerColors
      [] method = "register_panel" -> <<FALSE, e, "">>
      [] OTHER -> <<FALSE, "">>

\* C19: no method of ParleyClient lets grpc.RpcError out: when the stub
\* raises it, the method returns its documented failure value.
C19_ClientReturnsFailureValue ==
    (svc.method \in ClientMethods /\ svc.stub.kind = "rpc_error")
    => /\ svc.result.kind = "return"
       /\ svc.result.value = DocumentedFailure(svc.method, svc.stub.code)

\* C19's case: get_dialog_structure met an RpcError and returned the dict
\* with success False and no nodes and links.
C19_Witness ==
    /\ svc.method = "get_dialog_structure"
    /\ svc.stub.kind = "rpc_error"
    /\ svc.result.kind = "return"
    /\ ~svc.result.value.success
    /\ svc.result.value.nodes = <<>> /\ svc.result.value.links = <<>>

\* The cycle e found the cached dialog with a fingerprint other than the
\* cached one, and its push did not come through: the render raised before
\* the push, or update_panel_content reported failure.
ChangeNotPushed(e) ==
    /\ FetchedStructure(e)
    /\ FetchedId(e) = e.pre.current_dialog_id
    /\ Fingerprint(StructureSeen(e)) # e.pre.last_structure_hash
    /\ e.pre.panel_registered
    /\ \/ e.exc = "Exception" /\ Pushes(e) = 0
       \/ \E i \in 1..Len(e.rpcs) :
            /\ e.rpcs[i].m = "update_panel_content"
            /\ e.rpcs[i].o = "rpc_error"

\* C20: when the push for a changed snapshot fails or is cut short, the
\* next cycle in which every call succeeds pushes the rendering of the
\* snapshot, although the snapshot has not changed again.
C20_FailedPushSuperseded ==
    [][ ( /\ ChangeNotPushed(ev)
          /\ ev'.op = "poll"
          /\ AllOk(ev') /\ ev'.exc = "none"
          /\ StructureSeen(ev') = StructureSeen(ev) )
        => /\ Pushes(ev') = 1
           /\ \E c \in FlowchartsPushed(ev') :
                ~c.demo /\ c.data = ev'.host.content ]_vars

\* C21: a steady-state cycle (the fetched id is the cached non-empty one)
\* whose structure fetch is unsuccessful makes no update_panel_content call
\* and leaves the cached fingerprint, dialog id and dialog name as they were.
C21_FailedFetchKeepsDisplay ==
    SteadyFetchFailed(ev)
    => /\ Pushes(ev) = 0
       /\ self.last_structure_hash = ev.pre.last_structure_hash
       /\ self.current_dialog_id = ev.pre.current_dialog_id
       /\ self.current_dialog_name = ev.pre.current_dialog_name

\* C21's case: the host's structure is not the one last fingerprinted, the
\* panel is registered, the fetch is answered "unsuccessful" and nothing is
\* pushed.
C21_Witness ==
    /\ SteadyFetchFailed(ev)
    /\ ev.rpcs[2].o = "unsuccessful"
    /\ ev.pre.panel_registered
    /\ ev.pre.last_structure_hash # None
    /\ Fingerprint(StructureSeen(ev)) # ev.pre.last_structure_hash
    /\ ev.exc = "none"
    /\ Pushes(ev) = 0
    /\ self.last_structure_hash = ev.pre.last_structure_hash

\* C22: when a click for X is relayed while a pass of the loop is between
\* its read of the host's selection and its write of the acknowledged
\* selection, then once the pass has completed the acknowledged selection is
\* still X, the host's selection: the next pass, reading X, finds it
\* acknowledged and does not take it for a change made in the host.
C22_RelayNotOverwritten ==
    [][ ( /\ pc = "selection"
          /\ ev.op = "click" /\ ev.exc = "none"
          /\ Len(ev.rpcs) = 1 /\ ev.rpcs[1].o = "ok"
          /\ pc' # "selection" )
        => /\ host_selected' = ev.node
           /\ self'.last_selected_node_id = ev.node ]_vars

\* C23: the click handler makes exactly one remote call, select_node with
\* the clicked node; it never calls update_panel_content, makes no wait, and
\* leaves the cached dialog id, dialog name, fingerprint and the
\* panel-registered flag as they were: of the object's fields only the
\* acknowledged selection can change.
C23_ClickTouchesSelectionOnly ==
    ev.op = "click"
    => /\ Len(ev.rpcs) = 1
       /\ OneRelay(ev)
       /\ Pushes(ev) = 0
       /\ ev.sleeps = 0 /\ ev.waits = <<>>
       /\ self = [ev.pre EXCEPT !.last_selected_node_id =
                                  self.last_selected_node_id]
       /\ pc = "loop"

\* C23's case: a click on a node other than the acknowledged one, relayed
\* with success while a dialog with a recorded fingerprint is shown.
C23_Witness ==
    /\ ev.op = "click"
    /\ AllOk(ev) /\ Len(ev.rpcs) = 1
    /\ ev.pre.panel_registered
    /\ Truthy(ev.pre.current_dialog_id)
    /\ ev.pre.last_structure_hash # None
    /\ ev.pre.last_selected_node_id # ev.node
    /\ self.last_selected_node_id = ev.node
    /\ self.last_structure_hash = ev.pre.last_structure_hash

\* C24: every render fetches the panel preferences from the host
\* (get_panel_setting) before it pushes the page, and no handler of the
\* plugin makes a call that changes a panel preference (a call of a method
\* other than those of ParleyClient, none of which sets one).
C24_PreferencesFetchedNeverSet ==
    /\ \A i \in 1..Len(ev.rpcs) :
         (ev.rpcs[i].m = "update_panel_content"
            /\ ev.rpcs[i].a.kind = "flowchart")
         => \E j \in 1..(i - 1) : ev.rpcs[j].m = "get_panel_setting"
    /\ \A i \in 1..Len(ev.rpcs) : ev.rpcs[i].m \in ClientMethods

\* The i-th call of the handler e was made while _panel_registered was
\* true: the flag was set when the handler began and close_panel had not
\* been called in it, or register_panel had succeeded earlier in it.
RegisteredAt(e, i) ==
    \/ /\ e.pre.panel_registered
       /\ \A j \in 1..(i - 1) : e.rpcs[j].m # "close_panel"
    \/ \E j \in 1..(i - 1) :
         e.rpcs[j].m = "register_panel" /\ e.rpcs[j].o = "ok"

\* initialize's register_panel call came back with failure.
RegistrationFailed(e) ==
    /\ e.op = "initialize"
    /\ Len(e.rpcs) >= 1
    /\ e.rpcs[1].m = "register_panel"
    /\ e.rpcs[1].o = "rpc_error"

\* C25: update_panel_content is called only while _panel_registered is
\* true, after register_panel succeeded and before shutdown has called
\* close_panel; when the registration fails (no other call raising),
\* initialize still returns True, and neither it nor any cycle of the loop
\* pushes the placeholder or a flowchart.
C25_PushOnlyWhileRegistered ==
    /\ \A i \in 1..Len(ev.rpcs) :
         ev.rpcs[i].m = "update_panel_content" => RegisteredAt(ev, i)
    /\ ev.op = "shutdown" => Pushes(ev) = 0
    /\ (RegistrationFailed(ev) /\ OthersReturned(ev, 1))
       => ev.ret /\ ev.exc = "none" /\ Pushes(ev) = 0 /\ pc = "run"
    /\ (~self.panel_registered /\ ev.op \in {"poll", "click"})
       => Pushes(ev) = 0

\* C25's case: the registration failed, the loop runs, and a cycle that
\* found a newly opened dialog, every call answered, pushed nothing.
C25_Witness ==
    /\ pc = "loop"
    /\ ~self.panel_registered /\ ~ev.pre.panel_registered
    /\ host_panel = "none"
    /\ ev.op = "poll"
    /\ AllOk(ev) /\ ev.exc = "none"
    /\ Truthy(FetchedId(ev))
    /\ FetchedId(ev) # ev.pre.current_dialog_id
    /\ self.current_dialog_id = FetchedId(ev)
    /\ Pushes(ev) = 0

\* C26: the selection embedded in the page pushed after a change of dialog
\* id is the host's current selection for the new dialog (or none), never
\* the selection acknowledged while the previous dialog was current.
C26_SelectionNotCarriedOver ==
    DocSwitch(ev)
    => \A c \in FlowchartsPushed(ev) :
         SelectedId(c.selected) = SelectedId(ev.host.selected)

\* C27: when run has ended, on_shutdown has been called exactly once if
\* connect succeeded and on_initialize returned True, and not at all
\* otherwise; when connect failed, or on_initialize returned False or
\* raised, run returned 1; and every call of on_shutdown is followed by a
\* call of disconnect.
C27_ShutdownOnceThenDisconnect ==
    base.pc = "done"
    => /\ Cardinality({i \in 1..Len(base.calls) :
                         base.calls[i] = "on_shutdown"}) =
            (IF base.connected /\ base.init = "True" THEN 1 ELSE 0)
       /\ (base.result # "raise"
              /\ (~base.connected \/ base.init \in {"False", "raise"}))
          => base.result = "return 1"
       /\ \A i \in 1..Len(base.calls) :
            base.calls[i] = "on_shutdown"
            => \E j \in (i + 1)..Len(base.calls) :
                 base.calls[j] = "disconnect"

\* C28: when run has returned or raised, every channel connect created has
\* been closed and _channel is None.
C28_ChannelClosedOnEveryPath ==
    base.pc = "done" => (~base.channel /\ base.closed = base.created)

\* C29: a call of shutdown that follows a call of shutdown which ran to its
\* end makes no remote call and no channel close, and leaves the object as
\* the first call left it: client None, running False, _initialized False.
C29_ShutdownIdempotent ==
    [][ (ev.op = "shutdown" /\ ev.exc = "none" /\ ev'.op = "shutdown_again")
        => /\ ev'.rpcs = <<>>
           /\ ev'.exc = "none"
           /\ self' = self
           /\ channel' = channel /\ channel_closes' = channel_closes
           /\ host_panel' = host_panel
           /\ ~self'.client /\ ~self'.running /\ ~self'.initialized ]_vars

\* C29's case: the first shutdown closed the panel, said goodbye and closed
\* the channel; the second one has run and found nothing to do.
C29_Witness ==
    /\ ev.op = "shutdown_again"
    /\ ev.rpcs = <<>>
    /\ ~ev.pre.client /\ ~self.client
    /\ channel = "closed" /\ channel_closes = 1
    /\ host_panel = "none"
    /\ exit_path \in InterruptPaths

\* C30: read_file returns the response's content when the host reports
\* success; on an unsuccessful response it raises FileNotFoundError when the
\* error message contains "not found" in any letter case, and IOError
\* otherwise.  write_file raises IOError on an unsuccessful response, and so
\* never returns False.
C30_FileErrorsRaised ==
    LET SameLetter(a, b) ==
            \/ a = b
            \/ {a, b} \in {{"n", "N"}, {"o", "O"}, {"t", "T"}, {"f", "F"},
                           {"u", "U"}, {"d", "D"}}
        MentionsNotFound(message) ==
            \E i \in 1..(Len(message) - 8) :
              \A j \in 1..9 :
                SameLetter(message[i + j - 1],
                           <<"n", "o", "t", " ", "f", "o", "u", "n", "d">>[j])
    IN
    /\ (svc.method = "FileService.read_file" /\ svc.stub.kind = "response")
       => svc.result =
            IF svc.stub.success THEN Returned("content")
            ELSE IF MentionsNotFound(svc.stub.message)
            THEN Raises("FileNotFoundError", "OK")
            ELSE Raises("IOError", "OK")
    /\ (svc.method = "FileService.write_file" /\ svc.stub.kind = "response")
       => svc.result = IF svc.stub.success THEN Returned("True")
                       ELSE Raises("IOError", "OK")
    /\ svc.method = "FileService.write_file"
       => svc.result # Returned("False")

\* C30's case: the host answers read_file "File Not Found", in capitals,
\* and FileNotFoundError is raised.
C30_Witness ==
    /\ svc.method = "FileService.read_file"
    /\ svc.stub.kind = "response" /\ ~svc.stub.success
    /\ svc.stub.message =
         <<"F", "i", "l", "e", " ", "N", "o", "t", " ", "F", "o", "u", "n", "d">>
    /\ svc.result = Raises("FileNotFoundError", "OK")

====
